---- MODULE Spec2Model ----
(***************************************************************************)
(* Model of checkers/ruleguard_checker.go: the construction of the         *)
(* ruleguard checker (failOnError policy, glob expansion, reading and      *)
(* loading of rule files) and its WalkFile pass (collecting the engine's   *)
(* reports, sorting them by message, emitting them to the host).           *)
(*                                                                         *)
(* Strings that the code splits or trims are sequences of atoms: an atom   *)
(* is either a separator ("," or " ") or an indivisible piece of text.     *)
(* The string "import,dsl" is <<"import", ",", "dsl">>; <<"import","dsl">> *)
(* is the string "importdsl".                                              *)
(***************************************************************************)
EXTENDS Integers, Sequences, FiniteSets, TLC

VARIABLES
    rulesFlag,        \* info.Params.String("rules")
    failOnErrorFlag,  \* info.Params.String("failOnError")
    pc,               \* position in newRuleguardChecker: new, glob, read, load, returned
    h,                \* keys of parseErrorHandler.failureConditions
    filePatterns,     \* strings.Split(rulesFlag, ",")
    pi,               \* index of the pattern the outer loop is at
    filenames,        \* result of filepath.Glob for the current pattern
    fi,               \* index of the file the inner loop is at
    data,             \* what ioutil.ReadFile left in data: none, contents, empty
    loaded,           \* the local counter loaded
    readLog,          \* every ioutil.ReadFile call, in order
    loadLog,          \* every engine.Load call, in order
    logs,             \* every log.Printf call, in order
    result,           \* pending, checker (c, nil) or error (nil, err)
    errMsg,           \* the error returned, when result = "error"
    cEngine,          \* c.engine != nil
    walked,           \* whether WalkFile has been called
    engineRan,        \* whether the last WalkFile invoked engine.Run
    reported,         \* reports appended by the Report callback in the last WalkFile
    runErr,           \* whether engine.Run returned an error in the last WalkFile
    emitted           \* the c.ctx.Warn calls of the last WalkFile, in order

vars == <<rulesFlag, failOnErrorFlag, pc, h, filePatterns, pi, filenames, fi, data,
          loaded, readLog, loadLog, logs, result, errMsg, cEngine,
          walked, engineRan, reported, runErr, emitted>>

loadVars == <<rulesFlag, failOnErrorFlag, pc, h, filePatterns, pi, filenames, fi, data,
              loaded, readLog, loadLog, logs, result, errMsg, cEngine>>

walkVars == <<walked, engineRan, reported, runErr, emitted>>

----------------------------------------------------------------------------
(* Bounds *)

MaxFailLen == 3      \* atoms in the failOnError string
MaxRulesLen == 3     \* atoms in the rules string
MaxReports == 7      \* reports the engine makes in one Run

----------------------------------------------------------------------------
(* Strings *)

FailAtoms == {"import", "dsl", "all", "x", ","}
RuleAtoms == {"a*", "none*", "bad[", " ", ","}

SeqsUpTo(S, n) == UNION {[1..k -> S] : k \in 0..n}

\* strings.Split(s, ","): never empty; "" splits to [""]
RECURSIVE SplitAcc(_, _, _)
SplitAcc(s, cur, acc) ==
    IF s = <<>> THEN Append(acc, cur)
    ELSE IF Head(s) = "," THEN SplitAcc(Tail(s), <<>>, Append(acc, cur))
    ELSE SplitAcc(Tail(s), Append(cur, Head(s)), acc)

Split(s) == SplitAcc(s, <<>>, <<>>)

\* strings.TrimSpace(s): leading and trailing white space removed
RECURSIVE TrimLeft(_)
TrimLeft(s) == IF s # <<>> /\ Head(s) = " " THEN TrimLeft(Tail(s)) ELSE s

RECURSIVE TrimRight(_)
TrimRight(s) ==
    IF s # <<>> /\ s[Len(s)] = " " THEN TrimRight(SubSeq(s, 1, Len(s) - 1)) ELSE s

TrimSpace(s) == TrimRight(TrimLeft(s))

----------------------------------------------------------------------------
(* Errors and the failure policy *)

\* The errors ReadFile and engine.Load can return.
PathError == "PathError"        \* ioutil.ReadFile failed
ImportError == "ImportError"    \* *ruleguard.ImportError
ParseError == "ParseError"      \* any other error of engine.Load
LoadErrors == {PathError, ImportError, ParseError}

\* errors.As(err, &e) with e a *ruleguard.ImportError
IsImportError(err) == err = ImportError

\* the keys of failOnErrorPredicates
PredicateKeys == {"dsl", "import", "all"}

\* the dsl predicate without its negation
failOnErrorPredicates_dslNotNegated(k, err) ==
    CASE k = "dsl" -> IsImportError(err)
      [] k = "import" -> IsImportError(err)
      [] k = "all" -> TRUE

\* failOnErrorPredicates[k](err)
failOnErrorPredicates(k, err) ==
    CASE k = "dsl" -> ~IsImportError(err)
      [] k = "import" -> IsImportError(err)
      [] k = "all" -> TRUE

\* parseErrorHandler.failOnParseError
failOnParseError(hh, parseError) ==
    \E k \in hh : failOnErrorPredicates(k, parseError)

\* the loop of newErrorHandler over the split flag: the handler's keys, or the
\* first token that is neither empty nor a key of failOnErrorPredicates
RECURSIVE HandlerLoop(_, _)
HandlerLoop(tokens, keys) ==
    IF tokens = <<>> THEN [keys |-> keys, ok |-> TRUE, bad |-> <<>>]
    ELSE LET k == Head(tokens) IN
         IF k = <<>> THEN HandlerLoop(Tail(tokens), keys)
         ELSE IF Len(k) = 1 /\ k[1] \in PredicateKeys
              THEN HandlerLoop(Tail(tokens), keys \cup {k[1]})
              ELSE [keys |-> {}, ok |-> FALSE, bad |-> k]

newErrorHandler(flag) == HandlerLoop(Split(flag), {})

----------------------------------------------------------------------------
(* The file system and the engine, as the checker sees them *)

\* filepath.Glob(pattern): ErrBadPattern for a malformed pattern, else the
\* matching names in order. The directory holds the rule files a1 and a2.
GlobBad(pattern) == \E i \in 1..Len(pattern) : pattern[i] = "bad["

Glob(pattern) == IF pattern = <<"a*">> THEN <<"a1", "a2">> ELSE <<>>

NoErr == [kind |-> "nil", arg |-> <<>>]

----------------------------------------------------------------------------
(* newRuleguardChecker *)

Init ==
    /\ rulesFlag \in SeqsUpTo(RuleAtoms, MaxRulesLen)
    /\ failOnErrorFlag \in SeqsUpTo(FailAtoms, MaxFailLen)
    /\ pc = "new"
    /\ h = {}
    /\ filePatterns = <<>>
    /\ pi = 0
    /\ filenames = <<>>
    /\ fi = 0
    /\ data = "none"
    /\ loaded = 0
    /\ readLog = <<>>
    /\ loadLog = <<>>
    /\ logs = <<>>
    /\ result = "pending"
    /\ errMsg = NoErr
    /\ cEngine = FALSE
    /\ walked = FALSE
    /\ engineRan = FALSE
    /\ reported = <<>>
    /\ runErr = FALSE
    /\ emitted = <<>>

\* return nil, err
Fail(kind, arg) ==
    /\ pc' = "returned"
    /\ result' = "error"
    /\ errMsg' = [kind |-> kind, arg |-> arg]
    /\ cEngine' = FALSE

\* lines 98-120: the empty rules flag returns the bare checker; otherwise the
\* error handler is built and the pattern loop is entered
NewRuleguardChecker ==
    /\ pc = "new"
    /\ IF rulesFlag = <<>>
       THEN /\ pc' = "returned"
            /\ result' = "checker"
            /\ UNCHANGED <<h, filePatterns, pi, errMsg, cEngine>>
       ELSE LET r == newErrorHandler(failOnErrorFlag) IN
            IF ~r.ok
            THEN /\ Fail("invalidFlag", r.bad)
                 /\ UNCHANGED <<h, filePatterns, pi>>
            ELSE /\ h' = r.keys
                 /\ filePatterns' = Split(rulesFlag)
                 /\ pi' = 1
                 /\ pc' = "glob"
                 /\ UNCHANGED <<result, errMsg, cEngine>>
    /\ UNCHANGED <<rulesFlag, failOnErrorFlag, filenames, fi, data, loaded,
                   readLog, loadLog, logs>>
    /\ UNCHANGED walkVars

\* a pattern without match skipped like a malformed one
GlobOutcome_noMatchSkipped(pattern) ==
    IF GlobBad(pattern) \/ Len(Glob(pattern)) = 0 THEN "continue" ELSE "files"

\* a malformed pattern treated like a pattern without match
GlobOutcome_badPatternReturns(pattern) ==
    IF GlobBad(pattern) \/ Len(Glob(pattern)) = 0 THEN "return" ELSE "files"

\* lines 122-130: what the loop body does with one trimmed pattern: a malformed
\* pattern is logged and skipped, a pattern without match ends the construction,
\* any other is expanded to its files
GlobOutcome(pattern) ==
    IF GlobBad(pattern) THEN "continue"
    ELSE IF Len(Glob(pattern)) = 0 THEN "return"
    ELSE "files"

\* lines 133-138: after a failed ReadFile: return the error when the handler says
\* so; otherwise log, and go on to the engine.Load call below (no continue)
ReadErrOutcome(hh) ==
    IF failOnParseError(hh, PathError) THEN "return" ELSE "load"

\* a load error that is logged whatever the handler says
LoadOutcome_neverReturns(hh, err) == "loaded"

\* lines 139-145: after engine.Load: return the error when there is one and the
\* handler says so; otherwise (no error, or one that is only logged) loaded++
LoadOutcome(hh, err) ==
    IF err # "nil" /\ failOnParseError(hh, err) THEN "return" ELSE "loaded"

\* lines 121-130: one iteration head of the pattern loop
ExpandPattern ==
    /\ pc = "glob"
    /\ pi <= Len(filePatterns)
    /\ LET pattern == TrimSpace(filePatterns[pi])
           outcome == GlobOutcome(pattern) IN
       CASE outcome = "continue" ->
            /\ logs' = Append(logs, [what |-> "badPattern", arg |-> pattern])
            /\ pi' = pi + 1
            /\ UNCHANGED <<pc, filenames, fi, result, errMsg, cEngine>>
         [] outcome = "return" ->
            /\ Fail("noMatch", pattern)
            /\ UNCHANGED <<logs, pi, filenames, fi>>
         [] outcome = "files" ->
            /\ filenames' = Glob(pattern)
            /\ fi' = 1
            /\ pc' = "read"
            /\ UNCHANGED <<logs, pi, result, errMsg, cEngine>>
    /\ UNCHANGED <<rulesFlag, failOnErrorFlag, h, filePatterns, data, loaded,
                   readLog, loadLog>>
    /\ UNCHANGED walkVars

\* lines 131-138: the head of the file loop and ioutil.ReadFile
ReadFile ==
    /\ pc = "read"
    /\ IF fi > Len(filenames)
       THEN /\ pi' = pi + 1
            /\ pc' = "glob"
            /\ UNCHANGED <<data, readLog, logs, result, errMsg, cEngine>>
       ELSE \E ok \in BOOLEAN :
            /\ readLog' = Append(readLog, [pat |-> pi, idx |-> fi,
                                           file |-> filenames[fi], ok |-> ok])
            /\ IF ok
               THEN /\ data' = "contents"
                    /\ pc' = "load"
                    /\ UNCHANGED <<logs, result, errMsg, cEngine>>
               ELSE IF ReadErrOutcome(h) = "return"
               THEN /\ Fail("fatal", <<PathError>>)
                    /\ UNCHANGED <<data, logs>>
               ELSE /\ logs' = Append(logs, [what |-> "skip", arg |-> <<filenames[fi]>>])
                    /\ data' = "empty"
                    /\ pc' = "load"
                    /\ UNCHANGED <<result, errMsg, cEngine>>
            /\ UNCHANGED pi
    /\ UNCHANGED <<rulesFlag, failOnErrorFlag, h, filePatterns, filenames, fi,
                   loaded, loadLog>>
    /\ UNCHANGED walkVars

\* lines 139-145: engine.Load on whatever data holds, then loaded++
EngineLoad ==
    /\ pc = "load"
    /\ \E err \in {"nil", ImportError, ParseError} :
       /\ loadLog' = Append(loadLog, [pat |-> pi, idx |-> fi, file |-> filenames[fi],
                                      data |-> data, err |-> err])
       /\ IF LoadOutcome(h, err) = "return"
          THEN /\ Fail("fatal", <<err>>)
               /\ UNCHANGED <<logs, loaded, fi, data>>
          ELSE /\ logs' = IF err = "nil" THEN logs
                          ELSE Append(logs, [what |-> "skip", arg |-> <<filenames[fi]>>])
               /\ loaded' = loaded + 1
               /\ fi' = fi + 1
               /\ data' = "none"
               /\ pc' = "read"
               /\ UNCHANGED <<result, errMsg, cEngine>>
    /\ UNCHANGED <<rulesFlag, failOnErrorFlag, h, filePatterns, pi, filenames, readLog>>
    /\ UNCHANGED walkVars

\* lines 149-152: after the last pattern
Return ==
    /\ pc = "glob"
    /\ pi > Len(filePatterns)
    /\ cEngine' = (loaded # 0)
    /\ result' = "checker"
    /\ pc' = "returned"
    /\ UNCHANGED <<rulesFlag, failOnErrorFlag, h, filePatterns, pi, filenames, fi, data,
                   loaded, readLog, loadLog, logs, errMsg>>
    /\ UNCHANGED walkVars

Next ==
    \/ NewRuleguardChecker
    \/ ExpandPattern
    \/ ReadFile
    \/ EngineLoad
    \/ Return

Spec == Init /\ [][Next]_vars

----------------------------------------------------------------------------
(* WalkFile *)

Messages == {"a-msg", "b-msg"}

\* the < of Go strings on the messages used
StringLess(a, b) == a = "a-msg" /\ b = "b-msg"

\* the node of the file itself, f; the node of the i-th report is i
FileNode == 0
ExecutionError == "execution error"

\* reports[i].message < reports[j].message
less(s, i, j) == StringLess(s[i].message, s[j].message)

Swap(s, i, j) == [s EXCEPT ![i] = s[j], ![j] = s[i]]

\* sort.insertionSort_func
RECURSIVE InsertDown(_, _)
InsertDown(s, j) ==
    IF j > 1 /\ less(s, j, j - 1) THEN InsertDown(Swap(s, j, j - 1), j - 1) ELSE s

RECURSIVE InsertionLoop(_, _)
InsertionLoop(s, i) ==
    IF i > Len(s) THEN s ELSE InsertionLoop(InsertDown(s, i), i + 1)

insertionSort(s) == InsertionLoop(s, 2)

\* the ShellSort pass with gap 6 that sort.quickSort_func (Go up to 1.18) makes on
\* a slice of at most 12 elements before the insertion sort
RECURSIVE ShellPass(_, _)
ShellPass(s, i) ==
    IF i > Len(s) THEN s
    ELSE ShellPass(IF less(s, i, i - 6) THEN Swap(s, i, i - 6) ELSE s, i + 1)

\* sort.Slice(reports, less) on at most 12 reports. sort.Slice is documented as not
\* stable, and what it does depends on the Go release the checker is built with:
\* from 1.19 on (pdqsort_func) an insertion sort, up to 1.18 (quickSort_func) the
\* gap-6 pass followed by an insertion sort.
SortSlice(s) == {insertionSort(s), insertionSort(ShellPass(s, 7))}

ReportSeqs ==
    {[i \in 1..Len(m) |-> [node |-> i, message |-> m[i]]] :
        m \in SeqsUpTo(Messages, MaxReports)}

\* the warning of line 196, attached to f
ExecutionWarning == [node |-> FileNode, message |-> ExecutionError]

\* a run error that ends the pass before the reports are emitted
Emission_stopsOnRunError(err, sorted) ==
    IF err THEN <<ExecutionWarning>> ELSE sorted

\* lines 192-204: the c.ctx.Warn calls of one pass: the execution warning when
\* Run returned an error, then one call per sorted report
Emission(err, sorted) ==
    (IF err THEN <<ExecutionWarning>> ELSE <<>>) \o sorted

\* the pass without the check of c.engine
WalkFile_noEngineCheck ==
    /\ pc = "returned"
    /\ result = "checker"
    /\ ~walked
    /\ walked' = TRUE
    /\ \E reports \in ReportSeqs, err \in BOOLEAN :
       \E sorted \in SortSlice(reports) :
       /\ engineRan' = TRUE
       /\ reported' = reports
       /\ runErr' = err
       /\ emitted' = Emission(err, sorted)
    /\ UNCHANGED loadVars

\* lines 162-204: the pass over one source file. reports is a local of the call,
\* and the call writes no field of c, so one call from the constructed checker
\* shows what every call does.
WalkFile ==
    /\ pc = "returned"
    /\ result = "checker"
    /\ ~walked
    /\ walked' = TRUE
    /\ IF ~cEngine
       THEN /\ reported' = <<>>
            /\ runErr' = FALSE
            /\ emitted' = <<>>
            /\ engineRan' = FALSE
       ELSE \E reports \in ReportSeqs, err \in BOOLEAN :
            \E sorted \in SortSlice(reports) :
            /\ engineRan' = TRUE
            /\ reported' = reports
            /\ runErr' = err
            /\ emitted' = Emission(err, sorted)
    /\ UNCHANGED loadVars

\* The checker of a configuration that tolerates no load error and whose rules
\* flag is empty, names one malformed pattern or names the pattern a*, built and
\* then used on a source file.
WalkInit ==
    /\ Init
    /\ rulesFlag \in {<<>>, <<"bad[">>, <<"a*">>}
    /\ failOnErrorFlag = <<"all">>

WalkNext ==
    \/ NewRuleguardChecker
    \/ ExpandPattern
    \/ ReadFile
    \/ EngineLoad
    \/ Return
    \/ WalkFile

WalkSpec == WalkInit /\ [][WalkNext]_vars

----------------------------------------------------------------------------
(* Properties of the construction, checked under Spec *)

\* the token name stands between two separators (or the ends) of the flag
NamedIn(flag, name) ==
    \E i \in 1..Len(flag) :
        /\ flag[i] = name
        /\ (i = 1 \/ flag[i - 1] = ",")
        /\ (i = Len(flag) \/ flag[i + 1] = ",")

\* every token of the flag is empty or one of import, dsl, all
ValidConfig(flag) ==
    \A i \in 1..Len(flag) :
        flag[i] # "," =>
            /\ flag[i] \in {"import", "dsl", "all"}
            /\ (i = 1 \/ flag[i - 1] = ",")

HandlerBuilt == pc # "new" /\ rulesFlag # <<>> /\ ValidConfig(failOnErrorFlag)

\* C1: for a failOnError flag made of the tokens import, dsl, all and empty
\* entries, the handler is built, and failOnParseError is true of a load error
\* exactly when a token named in the flag has a true predicate: import for an
\* import error, dsl for any other error, all for every error. With no token
\* named it is false of every error.
C1_FatalIffSomeNamedPredicate ==
    HandlerBuilt =>
        /\ errMsg.kind # "invalidFlag"
        /\ \A E \in LoadErrors :
            failOnParseError(h, E) <=>
                \/ NamedIn(failOnErrorFlag, "import") /\ E = ImportError
                \/ NamedIn(failOnErrorFlag, "dsl") /\ E # ImportError
                \/ NamedIn(failOnErrorFlag, "all")

C1_Witness ==
    /\ HandlerBuilt
    /\ failOnErrorFlag = <<"import", ",", "dsl">>
    /\ result = "error"
    /\ errMsg = [kind |-> "fatal", arg |-> <<ImportError>>]

\* C2: whatever the rules flag, a failOnError flag with a non-empty token other
\* than import, dsl, all makes the construction return an error and no checker,
\* before any pattern is expanded and any file read or loaded.
C2_UnknownPolicyRejected ==
    ~ValidConfig(failOnErrorFlag) =>
        /\ pc \in {"new", "returned"}
        /\ readLog = <<>> /\ loadLog = <<>>
        /\ pc = "returned" => (result = "error" /\ errMsg.kind = "invalidFlag")

NoMatchAt ==
    /\ pc = "glob"
    /\ pi <= Len(filePatterns)
    /\ ~GlobBad(TrimSpace(filePatterns[pi]))
    /\ Glob(TrimSpace(filePatterns[pi])) = <<>>

\* C3: when the pattern loop reaches a well-formed pattern without match, the
\* construction returns an error that names the trimmed pattern and no checker,
\* whatever the policy, without a read or a load; nothing is processed after it.
C3_NoMatchAlwaysFails ==
    [][ /\ NoMatchAt =>
            /\ pc' = "returned"
            /\ result' = "error"
            /\ ~cEngine'
            /\ errMsg' = [kind |-> "noMatch", arg |-> TrimSpace(filePatterns[pi])]
            /\ readLog' = readLog /\ loadLog' = loadLog
        /\ (result = "error" /\ errMsg.kind = "noMatch") => vars' = vars
      ]_vars

C3_Witness ==
    /\ failOnErrorFlag = <<>>
    /\ result = "error"
    /\ errMsg = [kind |-> "noMatch", arg |-> <<"none*">>]
    /\ filePatterns[pi] # <<"none*">>

\* C4: a returned checker has an engine exactly when some file was read and
\* loaded by the engine without error.
C4_EngineIffSomeFileLoaded ==
    (pc = "returned" /\ result = "checker") =>
        (cEngine <=> \E i \in DOMAIN loadLog :
                        loadLog[i].data = "contents" /\ loadLog[i].err = "nil")

BadPatternAt ==
    /\ pc = "glob"
    /\ pi <= Len(filePatterns)
    /\ GlobBad(TrimSpace(filePatterns[pi]))

\* C8: a malformed pattern is skipped: the loop moves to the next pattern
\* without a read or a load and without ending the construction, whatever the
\* policy; the construction never returns an error at a malformed pattern.
C8_BadPatternSkipped ==
    [][ /\ BadPatternAt =>
            /\ pc' = "glob" /\ pi' = pi + 1
            /\ result' = "pending"
            /\ readLog' = readLog /\ loadLog' = loadLog /\ loaded' = loaded
        /\ (result' = "error" /\ result = "pending" /\ pc # "new") =>
            ~GlobBad(TrimSpace(filePatterns[pi]))
      ]_vars

C8_Witness ==
    /\ failOnErrorFlag = <<"all">>
    /\ rulesFlag = <<"bad[", ",", "a*">>
    /\ result = "checker"
    /\ cEngine
    /\ Len(loadLog) = 2
    /\ \A i \in DOMAIN loadLog : loadLog[i].pat = 2 /\ loadLog[i].err = "nil"

\* position (pattern, file) a before position b
Before(a, b) == a.pat < b.pat \/ (a.pat = b.pat /\ a.idx < b.idx)

InOrder(log) ==
    /\ \A i, j \in DOMAIN log : i < j => Before(log[i], log[j])
    /\ \A i \in DOMAIN log :
        LET names == Glob(TrimSpace(filePatterns[log[i].pat])) IN
        /\ ~GlobBad(TrimSpace(filePatterns[log[i].pat]))
        /\ log[i].idx \in 1..Len(names)
        /\ log[i].file = names[log[i].idx]
        \* no file of this pattern or of an earlier one was passed over
        /\ log[i].idx > 1 => (i > 1 /\ log[i - 1].pat = log[i].pat
                                    /\ log[i - 1].idx = log[i].idx - 1)
        /\ \A p \in 1..(log[i].pat - 1) :
            ~GlobBad(TrimSpace(filePatterns[p])) =>
                \A k \in 1..Len(Glob(TrimSpace(filePatterns[p]))) :
                    \E j \in 1..(i - 1) : log[j].pat = p /\ log[j].idx = k

\* C9: files are read and loaded in pattern order and, within a pattern, in
\* expansion order; a read or load error the handler classifies fatal is the
\* last call made: the construction has returned that error and no checker, and
\* no file after it was read or loaded.
C9_OrderedAndFailFast ==
    /\ InOrder(readLog)
    /\ InOrder(loadLog)
    /\ \A i \in DOMAIN readLog :
        (~readLog[i].ok /\ failOnParseError(h, PathError)) =>
            /\ result = "error" /\ ~cEngine
            /\ errMsg = [kind |-> "fatal", arg |-> <<PathError>>]
            /\ i = Len(readLog)
            /\ \A j \in DOMAIN loadLog : Before(loadLog[j], readLog[i])
    /\ \A i \in DOMAIN loadLog :
        (loadLog[i].err # "nil" /\ failOnParseError(h, loadLog[i].err)) =>
            /\ result = "error" /\ ~cEngine
            /\ errMsg = [kind |-> "fatal", arg |-> <<loadLog[i].err>>]
            /\ i = Len(loadLog)
            /\ \A j \in DOMAIN readLog : ~Before(loadLog[i], readLog[j])

C9_Witness ==
    /\ rulesFlag = <<"a*", ",", "a*">>
    /\ result = "error"
    /\ errMsg = [kind |-> "fatal", arg |-> <<ParseError>>]
    /\ Len(loadLog) = 3
    /\ loadLog[3].pat = 2 /\ loadLog[3].idx = 1

\* C10: engine.Load is never called for a file whose read failed: every load
\* was given contents that were read.
C10_NoLoadAfterFailedRead ==
    \A i \in DOMAIN loadLog : loadLog[i].data = "contents"

----------------------------------------------------------------------------
(* Properties of WalkFile, checked under WalkSpec *)

\* the emitted diagnostics that are not the execution warning
EmittedFindings == SelectSeq(emitted, LAMBDA e : e # ExecutionWarning)

IsPermutation(out, in) ==
    /\ Len(out) = Len(in)
    /\ \A i \in DOMAIN in : \E j \in DOMAIN out : out[j] = in[i]

NonDecreasing(out) ==
    \A i, j \in DOMAIN out : i < j => ~StringLess(out[j].message, out[i].message)

\* reports with the same message keep the order the engine made them in (the
\* node of a report is its place in that order)
TiesInReportOrder(out) ==
    \A i, j \in DOMAIN out :
        (i < j /\ out[i].message = out[j].message) => out[i].node < out[j].node

\* C5: the findings emitted by a pass are the stable sort by message of the
\* findings the engine reported: a permutation of them, messages non-decreasing,
\* findings with the same message in the order they were reported.
C5_EmittedIsStableSort ==
    (walked /\ engineRan) =>
        /\ IsPermutation(EmittedFindings, reported)
        /\ NonDecreasing(EmittedFindings)
        /\ TiesInReportOrder(EmittedFindings)

\* C6: when Run returns an error the pass still completes: one warning attached
\* to the file is emitted, and every finding reported is emitted as well, by
\* non-decreasing message.
C6_RunErrorIsOneWarning ==
    (walked /\ runErr) =>
        /\ pc = "returned" /\ result = "checker"
        /\ Cardinality({i \in DOMAIN emitted : emitted[i] = ExecutionWarning}) = 1
        /\ Len(emitted) = Len(reported) + 1
        /\ IsPermutation(EmittedFindings, reported)
        /\ NonDecreasing(EmittedFindings)

C6_Witness ==
    /\ walked /\ runErr
    /\ reported = <<[node |-> 1, message |-> "b-msg"], [node |-> 2, message |-> "a-msg"],
                    [node |-> 3, message |-> "a-msg"]>>
    /\ emitted = <<ExecutionWarning, [node |-> 2, message |-> "a-msg"],
                   [node |-> 3, message |-> "a-msg"], [node |-> 1, message |-> "b-msg"]>>

\* C7: with no engine bound, a pass emits nothing, does not run the engine and
\* changes nothing of the checker.
C7_NoEngineNoOp ==
    [][ (~cEngine /\ ~walked /\ walked') =>
            /\ emitted' = <<>>
            /\ ~engineRan'
            /\ reported' = <<>>
            /\ loadVars' = loadVars
      ]_vars

C7_Witness ==
    /\ walked
    /\ ~cEngine
    /\ rulesFlag = <<"bad[">>
    /\ emitted = <<>> /\ ~engineRan

====
